---- MODULE Spec2Model ----
(*************************************************************************)
(* Model of rss_safew.py: one run (check_for_updates) re-checks the      *)
(* pending-moderation records, then reads the RSS feed and forwards the  *)
(* new threads to the bot API.  The two JSON files, the local lists of   *)
(* check_pending_data / push_new_posts and the position inside a run are *)
(* the state; the feed, the forum pages, the image downloads and the bot *)
(* API are the environment, read anew by every step that asks them.      *)
(*************************************************************************)
EXTENDS Integers, Sequences, FiniteSets, TLC

\* ---------------------------------------------------------------- constants
MAX_PUSH_PER_RUN == 5
MAX_IMAGES_PER_MSG == 10

\* ------------------------------------------------------------------- bounds
\* thread ids that occur in the feed are 0..MaxTid
MaxTid == 2
\* number of entries the feed lists at a time
MaxFeed == 2
\* the success counter of a thread stops counting here
MaxOk == 2
\* reads of sent_posts.json that may fail (SpecIO)
MaxReadFaults == 1

TIDs == 1..MaxTid

\* ------------------------------------------------------------------ strings
\* A string is a sequence of one-character strings.
IsSpace(c) == c = " "

RECURSIVE LStrip(_)
LStrip(s) == IF s # <<>> /\ IsSpace(Head(s)) THEN LStrip(Tail(s)) ELSE s

RECURSIVE RStrip(_)
RStrip(s) ==
    IF s # <<>> /\ IsSpace(s[Len(s)]) THEN RStrip(SubSeq(s, 1, Len(s) - 1)) ELSE s

\* str.strip()
Strip(s) == RStrip(LStrip(s))

\* position of the first ">" of s at or after k, 0 when there is none
RECURSIVE FirstGt(_, _)
FirstGt(s, k) ==
    IF k > Len(s) THEN 0 ELSE IF s[k] = ">" THEN k ELSE FirstGt(s, k + 1)

\* re.sub(r'<[^>]+>', '', s)
RECURSIVE StripTags(_)
StripTags(s) ==
    IF s = <<>> THEN <<>>
    ELSE IF Head(s) = "<" /\ FirstGt(s, 2) > 2
         THEN StripTags(SubSeq(s, FirstGt(s, 2) + 1, Len(s)))
         ELSE <<Head(s)>> \o StripTags(Tail(s))

\* the author fetch_updates puts in when the feed gives none
DefaultAuthor == <<"N", "A">>

\* ------------------------------------------------------------ list helpers
Range(s) == {s[k] : k \in 1..Len(s)}

Min(a, b) == IF a < b THEN a ELSE b

\* sorted(list(set(...))) of a set of integers
RECURSIVE SortedSeqOfSet(_)
SortedSeqOfSet(S) ==
    IF S = {} THEN <<>>
    ELSE LET m == CHOOSE x \in S : \A y \in S : x <= y
         IN <<m>> \o SortedSeqOfSet(S \ {m})

\* the place sorted() gives the element at position j: after the elements with a
\* smaller tid and after the earlier elements with the same tid
Rank(data, j) ==
    Cardinality({m \in 1..Len(data) :
                    \/ data[m].tid < data[j].tid
                    \/ data[m].tid = data[j].tid /\ m <= j})

\* sorted(data, key=lambda x: x["tid"]): a stable sort
SortByTid(data) ==
    [k \in 1..Len(data) |-> data[CHOOSE j \in 1..Len(data) : Rank(data, j) = k]]


\* -------------------------------------------------------------- persistence
\* load_sent_tids: the list in the file, or [] when reading it raises
load_sent_tids(file, readOk) ==
    IF readOk THEN [k \in 1..Len(file) |-> file[k]] ELSE <<>>

\* faulty variant: only the new tids are written
SaveOnlyNewTids(new_tids, existing_tids) == SortedSeqOfSet(Range(new_tids))

\* save_sent_tids: the new content of the sent file
save_sent_tids(new_tids, existing_tids) ==
    SortedSeqOfSet(Range(existing_tids \o new_tids))

\* faulty variant: only the tid of a record is read, the other fields are defaults
LoadPendingTidsOnly(file) ==
    [k \in 1..Len(file) |->
        [tid |-> file[k].tid, title |-> <<"N", "T">>,
         author |-> <<"N", "A">>, description |-> <<"N", "D">>]]

\* load_pending_data: one record per dict of the file
load_pending_data(file) ==
    [k \in 1..Len(file) |->
        [tid |-> file[k].tid, title |-> file[k].title,
         author |-> file[k].author, description |-> file[k].description]]

\* the loop of save_pending_data over the sorted list: the first record of a tid wins
RECURSIVE UniqueData(_, _)
UniqueData(sorted, seen_tids) ==
    IF sorted = <<>> THEN <<>>
    ELSE LET item == Head(sorted)
         IN IF item.tid \notin seen_tids
            THEN <<[tid |-> item.tid,
                    title |-> Strip(item.title),
                    author |-> Strip(item.author),
                    description |-> Strip(item.description)]>>
                 \o UniqueData(Tail(sorted), seen_tids \cup {item.tid})
            ELSE UniqueData(Tail(sorted), seen_tids)

\* faulty variant: the records are written as they come, unsorted and with repeats
SavePendingAsGiven(data) ==
    [k \in 1..Len(data) |->
        [tid |-> data[k].tid, title |-> Strip(data[k].title),
         author |-> Strip(data[k].author),
         description |-> Strip(data[k].description)]]

\* save_pending_data: the new content of the pending file
save_pending_data(data) == UniqueData(SortByTid(data), {})

\* ----------------------------------------------------------------- the feed
NoTid == 0 - 1

ThreadLink(n) == [path |-> "thread", n |-> n]
OtherLink == [path |-> "forum", n |-> 0]

\* extract_tid_from_url: the number of thread-<n>.htm, None (NoTid) without a match
extract_tid_from_url(link) == IF link.path = "thread" THEN link.n ELSE NoTid

\* the fields an entry of the feed carries besides its link
CleanMeta == [title |-> <<"a">>, author |-> <<"u">>, description |-> <<"d">>]
MessyMeta ==
    [title |-> <<" ", "b">>, author |-> <<" ">>,
     description |-> <<"<", "i", ">", " ", "e">>]

FeedEntry(link, meta) ==
    [link |-> link, title |-> meta.title, author |-> meta.author,
     description |-> meta.description]

FeedEntries ==
    {FeedEntry(ThreadLink(t), m) : t \in TIDs, m \in {CleanMeta, MessyMeta}}
    \cup {FeedEntry(ThreadLink(0), CleanMeta), FeedEntry(OtherLink, CleanMeta)}

\* what the feed can list when it is read: up to MaxFeed entries in any order
Feeds == UNION {[1..n -> FeedEntries] : n \in 0..MaxFeed}

\* the entry as fetch_updates hands it on (lines 165-173)
ValidEntry(entry) ==
    [tid |-> extract_tid_from_url(entry.link),
     link |-> entry.link,
     rss_title |-> Strip(entry.title),
     rss_author |-> IF Strip(entry.author) # <<>> THEN Strip(entry.author)
                    ELSE DefaultAuthor,
     rss_description |-> StripTags(Strip(entry.description))]

\* fetch_updates keeps an entry with a tid that is in neither list
IsNewEntry(entry, sent, pending) ==
    LET tid == extract_tid_from_url(entry.link)
    IN /\ tid # NoTid
       /\ tid # 0
       /\ tid \notin Range(sent)
       /\ tid \notin Range(pending)

RECURSIVE ValidEntries(_, _, _)
ValidEntries(entries, sent, pending) ==
    IF entries = <<>> THEN <<>>
    ELSE (IF IsNewEntry(Head(entries), sent, pending)
          THEN <<ValidEntry(Head(entries))>> ELSE <<>>)
         \o ValidEntries(Tail(entries), sent, pending)

\* faulty variant: the entries of a feed that did not parse are used all the same
FetchIgnoringBozo(entries, bozo, sent, pending) ==
    [none |-> FALSE, entries |-> SortByTid(ValidEntries(entries, sent, pending))]

\* fetch_updates: None when the feed does not parse (bozo), else the new entries by tid
fetch_updates(entries, bozo, sent, pending) ==
    IF bozo THEN [none |-> TRUE, entries |-> <<>>]
    ELSE [none |-> FALSE, entries |-> SortByTid(ValidEntries(entries, sent, pending))]

\* faulty variant: every new entry is handed to push_new_posts
AllEntries(entries) == entries

\* new_entries[:MAX_PUSH_PER_RUN]
FirstEntries(entries) == SubSeq(entries, 1, Min(Len(entries), MAX_PUSH_PER_RUN))

\* ------------------------------------------------------------ the post page
\* what the forum answers to the request of a page: a status other than 200, no
\* answer at all (connection error, timeout, undecodable body), or a page with or
\* without the moderation banner and imgs distinct image URLs in its first message
PageImageCounts == {0, 1, 2, MAX_IMAGES_PER_MSG, MAX_IMAGES_PER_MSG + 1}

PageResponses ==
    {[kind |-> "status", code |-> c, banner |-> FALSE, imgs |-> 0] : c \in {404, 500}}
    \cup {[kind |-> "error", code |-> 0, banner |-> FALSE, imgs |-> 0]}
    \cup {[kind |-> "page", code |-> 200, banner |-> TRUE, imgs |-> n] : n \in {0, 2}}
    \cup {[kind |-> "page", code |-> 200, banner |-> FALSE, imgs |-> n] :
             n \in PageImageCounts}

\* the page of every thread can answer anything
Pages == [t \in TIDs |-> PageResponses]

\* get_post_status: (number of images, is_pending, status_code)
get_post_status(resp) ==
    IF resp.kind = "error"
    THEN [images |-> 0, is_pending |-> FALSE, status_code |-> 200]
    ELSE IF resp.code # 200
    THEN [images |-> 0, is_pending |-> FALSE, status_code |-> resp.code]
    ELSE IF resp.banner
    THEN [images |-> 0, is_pending |-> TRUE, status_code |-> resp.code]
    ELSE [images |-> Min(resp.imgs, MAX_IMAGES_PER_MSG), is_pending |-> FALSE,
          status_code |-> resp.code]

\* ---------------------------------------------------------------- the sends
\* bad is the position of the first image whose download is not a valid image (0:
\* all are valid); api tells whether the bot API answers 200 to the request
NoRequest == [success |-> FALSE, requests |-> <<>>]

Request(method, photos, api) ==
    [success |-> api, requests |-> <<[method |-> method, photos |-> photos]>>]

\* faulty variant: an invalid image makes the post go out as text
SendSinglePhotoOrText(bad, api) ==
    IF bad = 1 THEN Request("sendMessage", 0, api) ELSE Request("sendPhoto", 1, api)

send_single_photo(bad, api) ==
    IF bad = 1 THEN NoRequest ELSE Request("sendPhoto", 1, api)

\* faulty variant: the images before the first invalid one are posted
SendMediaGroupPartial(n, bad, api) ==
    IF n < 2 \/ n > MAX_IMAGES_PER_MSG THEN NoRequest
    ELSE IF bad = 1 THEN NoRequest
    ELSE IF bad \in 2..n THEN Request("sendMediaGroup", bad - 1, api)
    ELSE Request("sendMediaGroup", n, api)

send_media_group(n, bad, api) ==
    IF n < 2 \/ n > MAX_IMAGES_PER_MSG THEN NoRequest
    ELSE IF bad \in 1..n THEN NoRequest
    ELSE Request("sendMediaGroup", n, api)

send_text_msg(api) == Request("sendMessage", 0, api)

\* the first bytes of a download: the four signatures is_valid_image knows
Signatures ==
    {<<255, 216, 255>>, <<137, 80, 78, 71>>, <<71, 73, 70, 56>>, <<82, 73, 70, 70>>}

IsPrefix(sig, data) == Len(sig) <= Len(data) /\ SubSeq(data, 1, Len(sig)) = sig

\* is_valid_image: data is not empty and starts with one of the signatures
is_valid_image(data) ==
    IF data = <<>> THEN FALSE
    ELSE \E sig \in Signatures : IsPrefix(sig, data)

\* what the download of one image can give: each signature followed by a byte, an
\* empty body, a signature cut short, an HTML error page
ImageData ==
    {sig \o <<0>> : sig \in Signatures}
    \cup {<<>>, <<255, 216>>, <<60, 104, 116, 109, 108>>}

JpegData == <<255, 216, 255, 0>>

\* the downloads of n images: all of them a JPEG but one, the first or the last
Downloads(n) ==
    {[k \in 1..n |-> IF k = b THEN x ELSE JpegData] :
        b \in {1, n} \cap (1..n), x \in ImageData}

\* the position of the first download the send loop rejects, 0 when it rejects none
FirstInvalid(d) ==
    IF \A k \in 1..Len(d) : is_valid_image(d[k]) THEN 0
    ELSE CHOOSE k \in 1..Len(d) :
            /\ ~is_valid_image(d[k])
            /\ \A j \in 1..(k - 1) : is_valid_image(d[j])

\* what can happen to the send of n images: bad and api as above
SendOutcomes(n) ==
    {[bad |-> 0, api |-> a] : a \in BOOLEAN}
    \cup {[bad |-> FirstInvalid(d), api |-> TRUE] : d \in Downloads(n)}

\* the if/elif/else on len(images) of check_pending_data (lines 424-430)
PendingDelivery(n, bad, api) ==
    IF n = 1 THEN send_single_photo(bad, api)
    ELSE IF 2 <= n /\ n <= MAX_IMAGES_PER_MSG THEN send_media_group(n, bad, api)
    ELSE send_text_msg(api)

\* faulty variant: a page with MAX_IMAGES_PER_MSG images is not sent as a media group
NewDeliveryBelowMax(n, bad, api) ==
    IF n = 1 THEN send_single_photo(bad, api)
    ELSE IF 2 <= n /\ n < MAX_IMAGES_PER_MSG THEN send_media_group(n, bad, api)
    ELSE send_text_msg(api)

\* the if/elif/else on len(images) of push_new_posts (lines 494-500)
NewDelivery(n, bad, api) ==
    IF n = 1 THEN send_single_photo(bad, api)
    ELSE IF 2 <= n /\ n <= MAX_IMAGES_PER_MSG THEN send_media_group(n, bad, api)
    ELSE send_text_msg(api)

\* ----------------------------------------------------------- loop bodies
\* faulty variant: a record whose page answers 404 is kept
StillPendingKeeps404(still, item, st, success) ==
    IF st.status_code # 200 THEN Append(still, item)
    ELSE IF st.is_pending THEN Append(still, item)
    ELSE IF success THEN still
    ELSE Append(still, item)

\* faulty variant: a record whose send failed is not kept
StillPendingDropsFailed(still, item, st, success) ==
    IF st.status_code = 404 THEN still
    ELSE IF st.status_code # 200 THEN Append(still, item)
    ELSE IF st.is_pending THEN Append(still, item)
    ELSE still

\* still_pending after one pending record was handled (lines 402-438)
StillPendingAfter(still, item, st, success) ==
    IF st.status_code = 404 THEN still
    ELSE IF st.status_code # 200 THEN Append(still, item)
    ELSE IF st.is_pending THEN Append(still, item)
    ELSE IF success THEN still
    ELSE Append(still, item)

\* faulty variant: the moderation banner does not stop the loop body
ReachesSendDespiteBanner(st) ==
    /\ st.status_code # 404
    /\ st.status_code = 200

\* does the loop body reach the send (none of the three continue statements taken)
ReachesSend(st) ==
    /\ st.status_code # 404
    /\ st.status_code = 200
    /\ ~st.is_pending

\* faulty variant: the tid is recorded whatever the send returned
AppendAlways(tids, tid, success) == Append(tids, tid)

\* passed_tids / success_pushed / sent_tids after the send of one entry
AppendIfSuccess(tids, tid, success) ==
    IF success THEN Append(tids, tid) ELSE tids

\* faulty variant: an entry whose page does not answer 200 is recorded as pending too
PendingDataAfterAnyFailure(data, entry, st) ==
    IF st.status_code # 200 \/ st.is_pending
    THEN Append(data, [tid |-> entry.tid, title |-> entry.rss_title,
                       author |-> entry.rss_author,
                       description |-> entry.rss_description])
    ELSE data

\* pending_data of push_new_posts after one entry was handled (lines 476-483)
PendingDataAfter(data, entry, st) ==
    IF st.status_code = 200 /\ st.is_pending
    THEN Append(data, [tid |-> entry.tid, title |-> entry.rss_title,
                       author |-> entry.rss_author,
                       description |-> entry.rss_description])
    ELSE data

\* -------------------------------------------------------------------- state
VARIABLES
    sentFile,        \* sent_posts.json: a list of tids
    pendingFile,     \* pending_tids.json: a list of records
    readFaults,      \* how many more reads of sent_posts.json may fail
    pc,              \* "idle", "pending", "fetch", "push", "done"
    i,               \* position of the running loop (1-based)
    pending_data,    \* local of check_pending_data / push_new_posts
    sent_tids,       \* local of check_pending_data / push_new_posts
    passed_tids,     \* local of check_pending_data
    still_pending,   \* local of check_pending_data
    deleted_tids,    \* local of check_pending_data
    new_entries,     \* parameter of push_new_posts
    success_pushed,  \* local of push_new_posts
    okCount,         \* per tid: bot API requests answered 200 so far (up to MaxOk)
    runOk,           \* tids a send succeeded for in the running process
    pendObs,         \* per tid: what the pending check of this run saw
    last             \* what the step just taken exchanged with the outside

vars ==
    <<sentFile, pendingFile, readFaults, pc, i, pending_data, sent_tids,
      passed_tids, still_pending, deleted_tids, new_entries, success_pushed,
      okCount, runOk, pendObs, last>>

locals ==
    <<i, pending_data, sent_tids, passed_tids, still_pending, deleted_tids,
      new_entries, success_pushed>>

NoObs ==
    [phase |-> "none", tid |-> 0, title |-> <<>>, author |-> <<>>,
     description |-> <<>>, resp |-> "none", code |-> 0, banner |-> FALSE,
     images |-> 0, valid |-> TRUE, api |-> TRUE, success |-> FALSE,
     requests |-> <<>>]

\* the record of one handled entry: the answer of the page request, the number of
\* images get_post_status returned, whether every image download gave a valid image,
\* whether the bot API answers 200, the requests posted to it and what the send
\* returned
Obs(phase, tid, title, author, description, resp, st, net, sent) ==
    [phase |-> phase, tid |-> tid, title |-> title, author |-> author,
     description |-> description, resp |-> resp.kind, code |-> resp.code,
     banner |-> resp.banner, images |-> st.images, valid |-> net.bad = 0,
     api |-> net.api,
     success |-> sent.success, requests |-> sent.requests]

\* the class of what the pending check saw for one record
ObsClass(resp, sent) ==
    IF resp.kind = "status" /\ resp.code = 404 THEN "404"
    ELSE IF resp.kind = "status" THEN "status"
    ELSE IF resp.kind = "page" /\ resp.banner THEN "banner"
    ELSE IF sent.success THEN "sent"
    ELSE "failed"

\* what fetch_updates gave the run: None, no new entry, or new entries
FetchClass(bozo, found) ==
    IF bozo THEN "bozo"
    ELSE IF found.entries = <<>> THEN "empty"
    ELSE "entries"

Counted(count, tid, sent) ==
    IF sent.success
    THEN [count EXCEPT ![tid] = Min(@ + 1, MaxOk)]
    ELSE count

\* the outcomes of n reads of sent_posts.json: each succeeds or raises
ReadOutcomes(n) ==
    {r \in [1..n -> BOOLEAN] : Cardinality({k \in 1..n : ~r[k]}) <= readFaults}

Failed(r) == Cardinality({k \in DOMAIN r : ~r[k]})

TypeOK ==
    /\ pc \in {"idle", "pending", "fetch", "push", "done"}
    /\ readFaults \in 0..MaxReadFaults
    /\ Range(sentFile) \subseteq TIDs
    /\ \A k \in 1..Len(pendingFile) : pendingFile[k].tid \in TIDs
    /\ okCount \in [TIDs -> 0..MaxOk]
    /\ runOk \subseteq TIDs

InitCommon ==
    /\ sentFile = <<>>
    /\ pendingFile = <<>>
    /\ pc = "idle"
    /\ i = 0
    /\ pending_data = <<>>
    /\ sent_tids = <<>>
    /\ passed_tids = <<>>
    /\ still_pending = <<>>
    /\ deleted_tids = <<>>
    /\ new_entries = <<>>
    /\ success_pushed = <<>>
    /\ okCount = [t \in TIDs |-> 0]
    /\ runOk = {}
    /\ pendObs = [t \in TIDs |-> "none"]
    /\ last = NoObs

Init == InitCommon /\ readFaults = 0

InitIO == InitCommon /\ readFaults = MaxReadFaults

\* ---------------------------------------------------------------- one run
\* main -> check_for_updates -> check_pending_data up to its loop (lines 384-393)
StartRun ==
    /\ pc = "idle"
    /\ IF load_pending_data(pendingFile) = <<>>
       THEN /\ pc' = "fetch"
            /\ UNCHANGED <<locals, readFaults>>
       ELSE \E read \in ReadOutcomes(1) :
               /\ pc' = "pending"
               /\ readFaults' = readFaults - Failed(read)
               /\ pending_data' = load_pending_data(pendingFile)
               /\ sent_tids' = load_sent_tids(sentFile, read[1])
               /\ passed_tids' = <<>>
               /\ still_pending' = <<>>
               /\ deleted_tids' = <<>>
               /\ i' = 1
               /\ UNCHANGED <<new_entries, success_pushed>>
    /\ last' = NoObs
    /\ UNCHANGED <<sentFile, pendingFile, okCount, runOk, pendObs>>

\* one turn of the loop of check_pending_data (lines 395-438) and, after the last
\* record, the two saves (lines 440-442)
CheckPendingItemOn(pages) ==
    /\ pc = "pending"
    /\ \E resp \in pages[pending_data[i].tid] :
       \E net \in SendOutcomes(get_post_status(resp).images) :
          LET item == pending_data[i]
              st == get_post_status(resp)
              sent == IF ReachesSend(st) THEN PendingDelivery(st.images, net.bad, net.api)
                      ELSE NoRequest
              passed == AppendIfSuccess(passed_tids, item.tid, sent.success)
              sentl == AppendIfSuccess(sent_tids, item.tid, sent.success)
              still == StillPendingAfter(still_pending, item, st, sent.success)
              deleted == IF st.status_code = 404 THEN Append(deleted_tids, item.tid)
                         ELSE deleted_tids
          IN /\ ReachesSend(st) \/ (net.bad = 0 /\ net.api)
             /\ okCount' = Counted(okCount, item.tid, sent)
             /\ runOk' = IF sent.success THEN runOk \cup {item.tid} ELSE runOk
             /\ pendObs' = [pendObs EXCEPT ![item.tid] = ObsClass(resp, sent)]
             /\ last' = Obs("pending", item.tid, item.title, item.author,
                            item.description, resp, st, net, sent)
             /\ IF i < Len(pending_data)
                THEN /\ i' = i + 1
                     /\ passed_tids' = passed
                     /\ sent_tids' = sentl
                     /\ still_pending' = still
                     /\ deleted_tids' = deleted
                     /\ UNCHANGED <<sentFile, pendingFile, pc, pending_data>>
                ELSE /\ pendingFile' = save_pending_data(still)
                     /\ sentFile' = IF passed # <<>> THEN save_sent_tids(passed, sentl)
                                    ELSE sentFile
                     /\ pc' = "fetch"
                     /\ i' = 0
                     /\ pending_data' = <<>>
                     /\ sent_tids' = <<>>
                     /\ passed_tids' = <<>>
                     /\ still_pending' = <<>>
                     /\ deleted_tids' = <<>>
    /\ UNCHANGED <<readFaults, new_entries, success_pushed>>

CheckPendingItem == CheckPendingItemOn(Pages)

\* check_for_updates lines 516-520 with fetch_updates, and push_new_posts up to its
\* loop (lines 447-454)
FetchUpdatesFrom(feeds, bozos) ==
    /\ pc = "fetch"
    /\ \E feed \in feeds, bozo \in bozos, read \in ReadOutcomes(2) :
          LET sent == load_sent_tids(sentFile, read[1])
              pending == load_pending_data(pendingFile)
              pending_tids == [k \in 1..Len(pending) |-> pending[k].tid]
              found == fetch_updates(feed, bozo, sent, pending_tids)
              capped == FirstEntries(found.entries)
          IN /\ last' = [NoObs EXCEPT !.resp = FetchClass(bozo, found)]
             /\ IF found.none \/ found.entries = <<>>
                THEN /\ read[2]
                     /\ bozo => feed = <<>>  \* entries of a feed that does not parse are not read
                     /\ pc' = "done"
                     /\ readFaults' = readFaults - Failed(read)
                     /\ UNCHANGED locals
                ELSE /\ pc' = "push"
                     /\ readFaults' = readFaults - Failed(read)
                     /\ new_entries' = capped
                     /\ sent_tids' = load_sent_tids(sentFile, read[2])
                     /\ pending_data' = load_pending_data(pendingFile)
                     /\ success_pushed' = <<>>
                     /\ i' = 1
                     /\ UNCHANGED <<passed_tids, still_pending, deleted_tids>>
    /\ UNCHANGED <<sentFile, pendingFile, okCount, runOk, pendObs>>

FetchUpdates == FetchUpdatesFrom(Feeds, BOOLEAN)

\* one turn of the loop of push_new_posts (lines 456-505) and, after the last entry,
\* the save (lines 507-508)
PushEntryOn(pages) ==
    /\ pc = "push"
    /\ \E resp \in pages[new_entries[i].tid] :
       \E net \in SendOutcomes(get_post_status(resp).images) :
          LET entry == new_entries[i]
              st == get_post_status(resp)
              sent == IF ReachesSend(st) THEN NewDelivery(st.images, net.bad, net.api)
                      ELSE NoRequest
              data == PendingDataAfter(pending_data, entry, st)
              pushed == AppendIfSuccess(success_pushed, entry.tid, sent.success)
              sentl == AppendIfSuccess(sent_tids, entry.tid, sent.success)
          IN /\ ReachesSend(st) \/ (net.bad = 0 /\ net.api)
             /\ okCount' = Counted(okCount, entry.tid, sent)
             /\ runOk' = IF sent.success THEN runOk \cup {entry.tid} ELSE runOk
             /\ last' = Obs("new", entry.tid, entry.rss_title, entry.rss_author,
                            entry.rss_description, resp, st, net, sent)
             /\ pendingFile' = IF data # pending_data THEN save_pending_data(data)
                               ELSE pendingFile
             /\ IF i < Len(new_entries)
                THEN /\ i' = i + 1
                     /\ pending_data' = data
                     /\ success_pushed' = pushed
                     /\ sent_tids' = sentl
                     /\ UNCHANGED <<sentFile, pc, new_entries>>
                ELSE /\ sentFile' = IF pushed # <<>> THEN save_sent_tids(pushed, sentl)
                                    ELSE sentFile
                     /\ pc' = "done"
                     /\ i' = 0
                     /\ pending_data' = <<>>
                     /\ success_pushed' = <<>>
                     /\ sent_tids' = <<>>
                     /\ new_entries' = <<>>
    /\ UNCHANGED <<readFaults, passed_tids, still_pending, deleted_tids, pendObs>>

PushEntry == PushEntryOn(Pages)

\* main lines 536-539: the process ends
Exit ==
    /\ pc = "done"
    /\ pc' = "idle"
    /\ runOk' = {}
    /\ pendObs' = [t \in DOMAIN pendObs |-> "none"]
    /\ last' = NoObs
    /\ UNCHANGED <<sentFile, pendingFile, readFaults, locals, okCount>>

Next ==
    \/ StartRun
    \/ CheckPendingItem
    \/ FetchUpdates
    \/ PushEntry
    \/ Exit

Spec == Init /\ [][Next]_vars

\* the pending check handles the record of tid t and sees its send succeed or its
\* page answer 404
Resolve(t) ==
    /\ pc = "pending"
    /\ pending_data[i].tid = t
    /\ CheckPendingItem
    /\ pendObs'[t] \in {"sent", "404"}

\* runs keep happening and every step of a run is taken; a record that is checked
\* again and again is in the end checked when its page and its send resolve it
SpecLive ==
    /\ Init
    /\ [][Next]_vars
    /\ WF_vars(Next)
    /\ \A t \in TIDs : SF_vars(Resolve(t))

SpecIO == InitIO /\ [][Next]_vars


\* ------------------------------------------- a feed longer than one run takes
\* the threads of a feed with one entry more than push_new_posts takes in a run
CapTids == 1..(MAX_PUSH_PER_RUN + 1)

\* the feed lists them all, newest first, and keeps listing them
CapFeed == [k \in 1..(MAX_PUSH_PER_RUN + 1) |->
               FeedEntry(ThreadLink(MAX_PUSH_PER_RUN + 2 - k), CleanMeta)]

\* what the forum answers here: 404, another status or a page without images; only
\* the page of thread 1 can show the banner
CapPages ==
    [t \in CapTids |->
        {r \in PageResponses :
            /\ r.kind \in {"status", "page"}
            /\ r.imgs = 0
            /\ r.banner => t = 1}]

InitCap ==
    /\ sentFile = <<>>
    /\ pendingFile = <<>>
    /\ readFaults = 0
    /\ pc = "idle"
    /\ i = 0
    /\ pending_data = <<>>
    /\ sent_tids = <<>>
    /\ passed_tids = <<>>
    /\ still_pending = <<>>
    /\ deleted_tids = <<>>
    /\ new_entries = <<>>
    /\ success_pushed = <<>>
    /\ okCount = [t \in CapTids |-> 0]
    /\ runOk = {}
    /\ pendObs = [t \in CapTids |-> "none"]
    /\ last = NoObs

CheckPendingItemCap == CheckPendingItemOn(CapPages)

FetchUpdatesCap == FetchUpdatesFrom({CapFeed}, {FALSE})

PushEntryCap == PushEntryOn(CapPages)

NextCap ==
    \/ StartRun
    \/ CheckPendingItemCap
    \/ FetchUpdatesCap
    \/ PushEntryCap
    \/ Exit

SpecCap == InitCap /\ [][NextCap]_vars

\* runs keep happening and every step of a run is taken
SpecCapLive == InitCap /\ [][NextCap]_vars /\ WF_vars(NextCap)

\* ------------------------------------------------------------------ claims
PendingTids == {pendingFile[k].tid : k \in 1..Len(pendingFile)}

SentTids == Range(sentFile)

\* the step just taken handled an entry whose page request was answered 200 with a
\* page that shows the moderation banner
SawBanner(o) == o.phase # "none" /\ o.resp = "page" /\ o.banner

\* the step just taken handled an entry whose page was fetched and shows no banner
SawOpenPage(o) == o.phase # "none" /\ o.resp = "page" /\ ~o.banner

\* C1: for every tid at most one request to the bot API is ever answered 200,
\* whatever the feed lists (the same link twice included) and whatever the pages
\* and the sends do.
C1_AtMostOnce == \A t \in TIDs : okCount[t] <= 1

\* C2: the sent file only grows: no step, a save after a failed read of the file
\* included, removes a tid from it.
C2_SentAppendOnly == [][SentTids \subseteq Range(sentFile')]_vars

\* C3: every tid of the sent file, and of the lists a run is about to save into
\* it, has had a send answered 200; a step adds to the file only tids a send of the
\* running process succeeded for.
C3_SentOnlyForwarded ==
    /\ [](\A t \in SentTids \cup Range(sent_tids) \cup Range(passed_tids)
                   \cup Range(success_pushed) : okCount[t] >= 1)
    /\ [][Range(sentFile') \ SentTids \subseteq runOk']_vars

\* a run has ended with a tid in the sent file after another entry's send was
\* refused by the bot API and left out of the file
C3_Witness ==
    /\ pc = "done"
    /\ SentTids # {}
    /\ last.phase = "new"
    /\ last.requests # <<>>
    /\ ~last.success
    /\ last.tid \notin SentTids


\* a record of the pending file is gone after the step only if the pending check saw
\* its send succeed or its page answer 404; a record whose tid stays is unchanged
LeavesOnlyResolved ==
    \A k \in 1..Len(pendingFile) :
        LET r == pendingFile[k]
            after == {pendingFile'[j].tid : j \in 1..Len(pendingFile')}
        IN /\ r.tid \notin after => pendObs'[r.tid] \in {"sent", "404"}
           /\ r.tid \in after => r \in Range(pendingFile')

\* at the end of the pending check: the records it could not resolve are kept, and
\* the tid of a record whose page answered 404 is not added to the sent file
CheckKeepsTheRest ==
    pc = "pending" /\ pc' = "fetch"
        => \A k \in 1..Len(pendingFile) :
              LET t == pendingFile[k].tid
              IN /\ pendObs'[t] \in {"status", "banner", "failed"}
                      => pendingFile[k] \in Range(pendingFile')
                 /\ pendObs'[t] = "404"
                      => (t \in Range(sentFile') <=> t \in Range(sentFile))

BannerStepRecordsNothing ==
    pc \in {"pending", "push"} /\ SawBanner(last')
        => /\ okCount' = okCount
           /\ runOk' = runOk
           /\ Range(sentFile') \ Range(sentFile) \subseteq runOk
           /\ last'.tid \notin Range(sent_tids') \ Range(sent_tids)
           /\ last'.tid \in {pendingFile'[j].tid : j \in 1..Len(pendingFile')}

\* a new entry with the banner whose tid has no record yet gets one with its fields
BannerStepAddsRecord ==
    pc = "push" /\ SawBanner(last') /\ last'.tid \notin PendingTids
        => [tid |-> last'.tid, title |-> Strip(last'.title),
            author |-> Strip(last'.author),
            description |-> Strip(last'.description)] \in Range(pendingFile')

\* a pending record with the banner is kept
BannerStepKeepsRecord ==
    pc = "pending" /\ SawBanner(last')
        => \/ pc' = "pending" /\ pending_data[i] \in Range(still_pending')
           \/ pc' = "fetch" /\ pending_data[i] \in Range(pendingFile')

ChecksEveryRecord ==
    pc = "pending" /\ pc' = "fetch" => \A t \in PendingTids : pendObs'[t] # "none"

\* C6: every record of the pending file is checked again in every run, whatever
\* their number; a record whose send succeeded leaves the file for the sent file and a
\* record whose page answered 404 is dropped; so, with runs that keep happening, a
\* record that is resolvable again and again does leave the pending file.
C6_PendingResolved ==
    /\ [][ChecksEveryRecord]_vars
    /\ [](\A t \in TIDs :
             pc = "fetch" /\ pendObs[t] \in {"sent", "404"} => t \notin PendingTids)
    /\ [](\A t \in TIDs : pc = "fetch" /\ pendObs[t] = "sent" => t \in SentTids)
    /\ \A t \in TIDs : (t \in PendingTids) ~> (t \notin PendingTids)

\* one pending check has resolved both records of the file: one was sent, the page of
\* the other answered 404
C6_Witness ==
    /\ pc = "fetch"
    /\ \E t1 \in TIDs, t2 \in TIDs :
          /\ pendObs[t1] = "sent"
          /\ pendObs[t2] = "404"
          /\ PendingTids = {}
          /\ t1 \in SentTids
          /\ t2 \notin SentTids

\* C7: the number of images scraped is between 0 and MAX_IMAGES_PER_MSG and decides
\* the request: none -> sendMessage, one -> sendPhoto, two to ten -> sendMediaGroup
\* with that many photos, for new and for pending entries; an open page whose images
\* all download as valid images gets exactly one request.
C7_DeliveryMode ==
    /\ last.images \in 0..MAX_IMAGES_PER_MSG
    /\ \A k \in 1..Len(last.requests) :
          LET r == last.requests[k]
          IN /\ last.images = 0 => r.method = "sendMessage" /\ r.photos = 0
             /\ last.images = 1 => r.method = "sendPhoto" /\ r.photos = 1
             /\ last.images >= 2 => r.method = "sendMediaGroup" /\ r.photos = last.images
             /\ r.method = "sendMediaGroup"
                   => 2 <= r.photos /\ r.photos <= MAX_IMAGES_PER_MSG
    /\ SawOpenPage(last) /\ last.valid => Len(last.requests) = 1

\* a new entry with MAX_IMAGES_PER_MSG images went out as one media group
C7_Witness ==
    /\ last.phase = "new"
    /\ last.images = MAX_IMAGES_PER_MSG
    /\ last.success
    /\ last.requests = <<[method |-> "sendMediaGroup", photos |-> MAX_IMAGES_PER_MSG]>>

\* every turn of a loop moves on to the next entry of its list, or ends the loop
\* after the last one: no entry is handled twice in a run
LoopAdvances ==
    /\ pc = "pending"
          => \/ pc' = "pending" /\ i' = i + 1 /\ pending_data' = pending_data
             \/ pc' = "fetch" /\ i = Len(pending_data)
    /\ pc = "push"
          => \/ pc' = "push" /\ i' = i + 1 /\ new_entries' = new_entries
             \/ pc' = "done" /\ i = Len(new_entries)

\* C8: handling an entry posts at most one request to the bot API; a send succeeds
\* only with one request answered 200; an invalid image or another answer makes the
\* send fail with nothing else posted, and the entry is not handled again in the run.
C8_RetryFree ==
    /\ [](Len(last.requests) <= 1)
    /\ [](last.success => Len(last.requests) = 1 /\ last.api /\ last.valid)
    /\ [](~last.valid => last.requests = <<>>)
    /\ [](~last.api => ~last.success)
    /\ [][LoopAdvances]_vars

\* the image of a one-image entry was not a valid image: nothing was posted
C8_Witness ==
    /\ last.phase = "new"
    /\ last.images = 1
    /\ ~last.valid
    /\ last.requests = <<>>
    /\ ~last.success
    /\ pc = "push"

\* C9: nothing is posted for an entry unless its page was fetched with status 200
\* and shows no moderation banner.
C9_OnlyAfterFetch ==
    last.phase # "none" /\ ~SawOpenPage(last) => last.requests = <<>>

FailedNew(o) == o.phase = "new" /\ ~SawBanner(o) /\ ~o.success

\* how often a tid occurs in a list of entries
Occurrences(entries, tid) == Cardinality({k \in 1..Len(entries) : entries[k].tid = tid})

\* the step that fails on a new entry leaves the pending file and the lists of the
\* loop as they were, counts no success, and writes to the sent file nothing but
\* tids sent earlier in the run
FailedStepChangesNothing ==
    pc = "push" /\ FailedNew(last')
        => /\ pendingFile' = pendingFile
           /\ okCount' = okCount
           /\ runOk' = runOk
           /\ Range(sentFile') \ Range(sentFile) \subseteq runOk
           /\ pc' = "push" => /\ pending_data' = pending_data
                               /\ sent_tids' = sent_tids
                               /\ success_pushed' = success_pushed

\* the tid of a failed entry that the run handles once is in neither file afterwards
FailedStepLeavesTidNew ==
    pc = "push" /\ FailedNew(last') /\ Occurrences(new_entries, last'.tid) = 1
        => /\ last'.tid \notin Range(sentFile')
           /\ last'.tid \notin {pendingFile'[j].tid : j \in 1..Len(pendingFile')}

\* whatever the feed lists, fetch_updates selects every entry whose tid is in
\* neither file
StillNewIsSelected ==
    \A feed \in Feeds :
        LET pending_tids == [k \in 1..Len(pendingFile) |-> pendingFile[k].tid]
            found == fetch_updates(feed, FALSE, load_sent_tids(sentFile, TRUE),
                                   pending_tids)
        IN \A k \in 1..Len(feed) :
              LET tid == extract_tid_from_url(feed[k].link)
              IN tid \in TIDs \ (SentTids \cup PendingTids)
                    => \E j \in 1..Len(found.entries) : found.entries[j].tid = tid

C14_Disjoint == pc = "done" => SentTids \cap PendingTids = {}

\* a record whose tid is still in the pending file after the step is there unchanged
KeptRecordUnchanged ==
    \A k \in 1..Len(pendingFile) :
        pendingFile[k].tid \in {pendingFile'[j].tid : j \in 1..Len(pendingFile')}
            => pendingFile[k] \in Range(pendingFile')

\* a second feed entry of a tid that has a record does not replace the record
BannerStepKeepsFirst ==
    pc = "push" /\ SawBanner(last') /\ last'.tid \in PendingTids
        => pendingFile' = pendingFile

\* the pending check builds the message of a record from the fields the file holds
PendingMessageFromRecord ==
    pc = "pending"
        => /\ last'.phase = "pending"
           /\ [tid |-> last'.tid, title |-> last'.title, author |-> last'.author,
               description |-> last'.description] \in Range(pendingFile)

\* C15: the title, author and description stored with a tid when push_new_posts
\* put it into the pending file stay as they are for as long as the tid is in the
\* file, and the message check_pending_data sends for the tid carries exactly the
\* stored tid, title, author and description.
C15_PendingMetadata ==
    /\ [][BannerStepAddsRecord]_vars
    /\ [][KeptRecordUnchanged]_vars
    /\ [][BannerStepKeepsFirst]_vars
    /\ [][PendingMessageFromRecord]_vars

\* the pending check has sent the message of a record that was stored from a feed
\* entry with blanks and markup around its fields, while the record is in the file
C15_Witness ==
    /\ last.phase = "pending"
    /\ last.success
    /\ last.title = <<"b">>
    /\ last.author = DefaultAuthor
    /\ last.description = <<"e">>
    /\ pc = "pending"
    /\ [tid |-> last.tid, title |-> <<"b">>, author |-> DefaultAuthor,
        description |-> <<"e">>] \in Range(pendingFile)

\* C16: a sendPhoto or sendMediaGroup request is posted only when every image
\* downloaded for the entry is a valid image (not empty, starting with a JPEG, PNG,
\* GIF or RIFF signature); one invalid image, the first or a later one of a gallery,
\* means that nothing at all is posted for the entry and that the send fails.
C16_InvalidImageBlocks ==
    /\ \A k \in 1..Len(last.requests) :
          last.requests[k].method \in {"sendPhoto", "sendMediaGroup"} => last.valid
    /\ ~last.valid => last.requests = <<>> /\ ~last.success
    /\ \A data \in ImageData :
          is_valid_image(data)
             <=> /\ data # <<>>
                 /\ \E sig \in Signatures :
                       \A k \in 1..Len(sig) : k <= Len(data) /\ data[k] = sig[k]
    /\ ~is_valid_image(<<>>) /\ ~is_valid_image(<<255, 216>>) /\ is_valid_image(JpegData)
    /\ \A n \in PageImageCounts : \A d \in Downloads(n) :
          FirstInvalid(d) = 0 <=> \A k \in 1..n : is_valid_image(d[k])

\* the last image of a gallery of MAX_IMAGES_PER_MSG images was not a valid image:
\* nothing was posted for the record the pending check handled
C16_Witness ==
    /\ last.phase = "pending"
    /\ last.images = MAX_IMAGES_PER_MSG
    /\ ~last.valid
    /\ last.requests = <<>>
    /\ ~last.success

\* a fetch that gives None or no new entry ends the run with both files, and the
\* count of successful sends, as they were
NoNewPhase ==
    pc = "fetch"
        => /\ last'.resp \in {"bozo", "empty", "entries"}
           /\ last'.resp \in {"bozo", "empty"}
                 => /\ pc' = "done"
                    /\ sentFile' = sentFile
                    /\ pendingFile' = pendingFile
                    /\ okCount' = okCount
                    /\ runOk' = runOk
           /\ pc' = "push" => last'.resp = "entries"

\* at the end of a run without new-post phase the files are as the pending check
\* left them
PendingCheckKept ==
    pc = "done" /\ last.resp \in {"bozo", "empty"}
        => \A t \in DOMAIN pendObs :
              /\ pendObs[t] = "sent" => t \in SentTids /\ t \notin PendingTids
              /\ pendObs[t] = "404" => t \notin PendingTids
              /\ pendObs[t] \in {"banner", "status", "failed"} => t \in PendingTids

\* C17: when fetch_updates returns None (the feed cannot be fetched or parsed) or
\* finds no new entry, the run forwards no new post and changes neither file after
\* the pending check; what the pending check of the run wrote to the two files is
\* kept.
C17_NoFeedNoChange ==
    /\ [][NoNewPhase]_vars
    /\ []PendingCheckKept

\* a run has ended on a feed that did not parse, after its pending check sent one
\* record and kept another one that still shows the banner
C17_Witness ==
    /\ pc = "done"
    /\ last.resp = "bozo"
    /\ \E t1 \in TIDs, t2 \in TIDs :
          /\ pendObs[t1] = "sent"
          /\ t1 \in SentTids \ PendingTids
          /\ pendObs[t2] = "banner"
          /\ t2 \in PendingTids \ SentTids

\* a list of numbers in strictly ascending order
Ascending(s) == \A j \in 1..Len(s), k \in 1..Len(s) : j < k => s[j] < s[k]

PendingTidList == [k \in 1..Len(pendingFile) |-> pendingFile[k].tid]

\* the first record of a tid in a list, with its fields stripped
FirstOf(data, tid) ==
    LET k == CHOOSE k \in 1..Len(data) :
                /\ data[k].tid = tid
                /\ \A j \in 1..(k - 1) : data[j].tid # tid
    IN [tid |-> tid, title |-> Strip(data[k].title),
        author |-> Strip(data[k].author),
        description |-> Strip(data[k].description)]

\* the save of push_new_posts writes, for every tid of the list it is given (the
\* records loaded and then the one appended), the first record of that tid
FirstRecordWins ==
    pc = "push" /\ SawBanner(last')
        => LET data == Append(pending_data,
                              [tid |-> last'.tid, title |-> last'.title,
                               author |-> last'.author,
                               description |-> last'.description])
           IN /\ {pendingFile'[j].tid : j \in 1..Len(pendingFile')}
                    = {data[j].tid : j \in 1..Len(data)}
              /\ \A j \in 1..Len(pendingFile') :
                    pendingFile'[j] = FirstOf(data, pendingFile'[j].tid)

\* C18: the pending file holds at most one record per tid, in ascending order of
\* tid, and of several records of one tid handed to a save the first is the one
\* kept; the sent file holds every tid at most once, in ascending order.
C18_FilesNormalised ==
    /\ [](Ascending(sentFile) /\ Ascending(PendingTidList))
    /\ [][FirstRecordWins]_vars

\* the feed listed a thread twice with different fields and both fetches showed the
\* banner: the file holds the record of the first entry, before the record of a
\* larger tid that was stored in an earlier run
C18_Witness ==
    /\ SawBanner(last)
    /\ last.phase = "new"
    /\ last.title = <<"b">>
    /\ Len(pendingFile) = 2
    /\ pendingFile[1].tid = last.tid
    /\ pendingFile[1].title = <<"a">>
    /\ pendingFile[2].tid > last.tid

\* the tids the long feed lists that are in neither file
CapNew ==
    {extract_tid_from_url(CapFeed[k].link) : k \in 1..Len(CapFeed)}
        \ (SentTids \cup PendingTids)

\* the MAX_PUSH_PER_RUN smallest of a set of tids
Smallest(tids) == {t \in tids : Cardinality({u \in tids : u < t}) < MAX_PUSH_PER_RUN}

\* push_new_posts is handed the new entries with the smallest tids, in ascending order
TakesSmallestNew ==
    pc = "fetch" /\ pc' = "push"
        => /\ {new_entries'[k].tid : k \in 1..Len(new_entries')} = Smallest(CapNew)
           /\ Len(new_entries') = Cardinality(Smallest(CapNew))
           /\ Ascending([k \in 1..Len(new_entries') |-> new_entries'[k].tid])

\* the loop handles the entries it was handed one after the other, in their order
HandlesInOrder ==
    pc = "push"
        => /\ last'.phase = "new"
           /\ last'.tid = new_entries[i].tid
           /\ i <= Len(new_entries)
           /\ pc' = "push" => i' = i + 1 /\ new_entries' = new_entries

\* C12: in one run push_new_posts handles at most MAX_PUSH_PER_RUN feed entries:
\* the new entries (tid in neither file) with the smallest tids, in ascending order
\* of tid, each with at most one request; so a run sends at most MAX_PUSH_PER_RUN
\* messages for new posts. What the pending check sends does not count.
C12_CapAndOrder ==
    /\ [](Len(new_entries) <= MAX_PUSH_PER_RUN)
    /\ [](Len(success_pushed) <= MAX_PUSH_PER_RUN /\ Len(last.requests) <= 1)
    /\ [][TakesSmallestNew]_vars
    /\ [][HandlesInOrder]_vars

\* a run has sent MAX_PUSH_PER_RUN + 1 messages: one for the record its pending
\* check resolved, then MAX_PUSH_PER_RUN for new entries
C12_Witness ==
    /\ pc = "done"
    /\ Cardinality(runOk) = MAX_PUSH_PER_RUN + 1
    /\ \E t \in CapTids : pendObs[t] = "sent"
    /\ last.phase = "new"
    /\ last.tid = MAX_PUSH_PER_RUN + 1
    /\ last.success

\* whenever an entry of thread t is handled, its page is there without banner and
\* its send succeeds
GoodWhenTried(t) == [](last.phase # "none" /\ last.tid = t => last.success)

\* C13: with runs that keep happening, a thread that stays in the feed, and whose
\* page is open and whose send succeeds whenever it is tried, is in the end
\* forwarded and in the sent file, even when the entries with smaller tids fail in
\* every run.
C13_EventuallySent ==
    \A t \in CapTids : GoodWhenTried(t) => <>(t \in SentTids)

====
